---------------------------- MODULE Spec2Model ----------------------------
(***************************************************************************)
(* A model of the DeFi wallet credit scorer (src/score_wallets.py) and of  *)
(* the bucket derivation of the reporting tool (src/generate_analysis.py). *)
(*                                                                         *)
(* Python floats are modelled as exact rationals [n, d] kept in lowest     *)
(* terms.  On the bounded inputs used here (denominators up to 5, and the  *)
(* scenario values 10 and 60) the truncated IEEE-754 result of the scoring *)
(* formula equals the truncated exact result; multiplication by 0.5 is     *)
(* exact in both.                                                          *)
(***************************************************************************)
EXTENDS Integers, Sequences, FiniteSets, TLC

VARIABLES
    features,   \* the feature vector handed to _calculate_wallet_score
    running,    \* the local `score` of _calculate_wallet_score before int()
    final,      \* the value _calculate_wallet_score returned
    spc,        \* position of the scoring run: "ready" | "scored"
    pc,         \* position of main between the calls it makes
    feature_df, \* main's feature_df: wallet -> feature vector
    scores,     \* main's scores: wallet -> integer score
    score_df,   \* the score_df generate_score_report returns
    analysis,   \* the analysis generate_score_report returns
    df,         \* the DataFrame: [columns, rows], a row a tuple of values
    user_field, action_field, timestamp_field, reserve_field,
                \* the scorer's detected column names, Null for None
    doc,        \* the parsed input document, json.load(f)
    printed,    \* the key load_transactions printed as the one it used
    error,      \* str(e) of the exception main caught, "" when none
    output,     \* the document save_results wrote, Empty when none
    ret,        \* what main returned: "none" | "results" | "" (running)
    calls,      \* the scorer's methods main has called, in order
    report_df   \* the reporting tool's score_df: key -> score and range label

scoreVars == <<features, running, final, spc>>
fieldVars == <<user_field, action_field, timestamp_field, reserve_field>>
runVars == <<doc, printed, error, output, ret, calls>>
mainVars == <<pc, feature_df, scores, score_df, analysis, df, user_field,
              action_field, timestamp_field, reserve_field, doc, printed,
              error, output, ret, calls>>
toolVars == <<report_df>>
mainVarsButPc == <<feature_df, scores, score_df, analysis, df, user_field,
                   action_field, timestamp_field, reserve_field, doc,
                   printed, error, output, ret, calls>>
vars == <<features, running, final, spc, pc, feature_df, scores, score_df,
          analysis, df, user_field, action_field, timestamp_field,
          reserve_field, doc, printed, error, output, ret, calls,
          report_df>>

----------------------------------------------------------------------------
(* Bounds of the model                                                     *)

MaxTx == 2
MaxBorrows == 2
MaxRepays == 2
MaxLiq == 2
MaxAge == 3
MaxAssets == 6

----------------------------------------------------------------------------
(* Exact rational arithmetic standing for Python float arithmetic          *)

RECURSIVE GCD(_, _)
GCD(a, b) == IF b = 0 THEN a ELSE GCD(b, a % b)

Abs(x) == IF x < 0 THEN -x ELSE x

Rat(n, d) ==
    LET g == GCD(Abs(n), Abs(d))
        s == IF d < 0 THEN -1 ELSE 1
    IN  [n |-> (s * n) \div g, d |-> (s * d) \div g]

FromInt(i) == [n |-> i, d |-> 1]

RAdd(x, y) == Rat(x.n * y.d + y.n * x.d, x.d * y.d)
RSub(x, y) == Rat(x.n * y.d - y.n * x.d, x.d * y.d)
RMul(x, y) == Rat(x.n * y.n, x.d * y.d)
RLt(x, y) == x.n * y.d < y.n * x.d
RLe(x, y) == x.n * y.d <= y.n * x.d
REq(x, y) == x.n * y.d = y.n * x.d
RMin(x, y) == IF RLt(y, x) THEN y ELSE x
RMax(x, y) == IF RLt(x, y) THEN y ELSE x

\* int(x): truncation toward zero
Trunc(x) == IF x.n >= 0 THEN x.n \div x.d ELSE -((-x.n) \div x.d)

IMin(a, b) == IF b < a THEN b ELSE a
IMax(a, b) == IF b > a THEN b ELSE a

----------------------------------------------------------------------------
(* JSON values: strings are tuples of one-character strings                *)

Str(chars) == [t |-> "str", s |-> chars]
Num(i) == [t |-> "num", n |-> i]
Null == [t |-> "null"]

\* float('nan')
NaN == [n |-> 0, d |-> 0]

\* the empty dict / the empty DataFrame
Empty == [x \in {} |-> 0]

\* the action labels and asset names used below
v_deposit == Str(<<"d", "e", "p", "o", "s", "i", "t">>)
v_borrow == Str(<<"b", "o", "r", "r", "o", "w">>)
v_repay == Str(<<"r", "e", "p", "a", "y">>)
v_liquidationcall ==
    Str(<<"l", "i", "q", "u", "i", "d", "a", "t", "i", "o", "n", "c", "a",
          "l", "l">>)
v_redeemunderlying ==
    Str(<<"r", "e", "d", "e", "e", "m", "u", "n", "d", "e", "r", "l", "y",
          "i", "n", "g">>)
v_Repay == Str(<<"R", "e", "p", "a", "y">>)
v_USDC == Str(<<"U", "S", "D", "C">>)
v_DAI == Str(<<"D", "A", "I">>)

\* pd.DataFrame([])
EmptyFrame == [columns |-> <<>>, rows |-> <<>>]

\* __init__: the four field names are None
NoFields ==
    /\ user_field = Null
    /\ action_field = Null
    /\ timestamp_field = Null
    /\ reserve_field = Null

\* no run of main: nothing read, printed, raised, written or returned
NoRun ==
    /\ doc = Null
    /\ printed = ""
    /\ error = ""
    /\ output = Empty
    /\ ret = ""
    /\ calls = <<>>

\* the scoring function and the report run with no dataset loaded
IdleFrame == df = EmptyFrame /\ NoFields /\ NoRun

\* main before its first call, no DataFrame built yet
IdleMain ==
    /\ pc = "idle"
    /\ feature_df = Empty
    /\ scores = Empty
    /\ score_df = Empty
    /\ analysis = Empty
    /\ df = EmptyFrame
    /\ NoFields
    /\ NoRun

----------------------------------------------------------------------------
(* _calculate_wallet_score                                                 *)

\* variant: the volume component without its cap of 250
volume_score_uncapped(f) == FromInt(f.total_transactions * 5)

\* 1. Transaction Volume Score
volume_score(f) == RMin(FromInt(250), FromInt(f.total_transactions * 5))

\* 2. Repayment Behavior Score
repayment_score(f) == RMul(f.repayment_rate, FromInt(300))

\* 3. Risk Indicators Score
risk_score(f) ==
    LET risk_penalty == RMul(f.liquidation_ratio, FromInt(200))
    IN  RMax(FromInt(0), RSub(FromInt(200), risk_penalty))

\* 4. Activity Consistency Score
consistency_score(f) ==
    IF f.account_age_days > 0
    THEN RMin(FromInt(150),
              RMul(Rat(f.active_days, f.account_age_days), FromInt(150)))
    ELSE FromInt(0)

\* 5. Portfolio Diversity Score
diversity_score(f) == RMin(FromInt(100), FromInt(f.unique_assets * 20))

\* the value of `score` after the five `score +=` of the components
component_sum(f) ==
    RAdd(RAdd(RAdd(RAdd(RAdd(FromInt(0), volume_score(f)),
                        repayment_score(f)),
                   risk_score(f)),
              consistency_score(f)),
         diversity_score(f))

\* variant: the bonus only for a repayment rate strictly above 1
responsible_strict(f) ==
    /\ RLt(FromInt(1), f.repayment_rate)
    /\ REq(f.liquidation_ratio, FromInt(0))

\* the condition of the responsibility bonus
responsible(f) ==
    /\ RLe(FromInt(1), f.repayment_rate)
    /\ REq(f.liquidation_ratio, FromInt(0))

\* variant: the penalty from 100 transactions per day on
bot_like_inclusive(f) == RLe(FromInt(100), f.avg_transactions_per_day)

\* the condition of the bot penalty
bot_like(f) == RLt(FromInt(100), f.avg_transactions_per_day)

\* the value of `score` after the bonus
with_bonus(f) ==
    IF responsible(f) THEN RAdd(component_sum(f), FromInt(50))
    ELSE component_sum(f)

\* variant: the halving applied before the bonus is added
running_total_penalty_first(f) ==
    LET halved == IF bot_like(f) THEN RMul(component_sum(f), Rat(1, 2))
                  ELSE component_sum(f)
    IN  IF responsible(f) THEN RAdd(halved, FromInt(50)) ELSE halved

\* the value of `score` after the penalty, i.e. just before int()
running_total(f) ==
    IF bot_like(f) THEN RMul(with_bonus(f), Rat(1, 2)) ELSE with_bonus(f)

\* variant: the clamp without its upper limit
clamp_no_upper(s) == IMax(0, s)

\* return min(1000, max(0, int(score)))
clamp(s) == IMin(1000, IMax(0, s))

calculate_wallet_score(f) == clamp(Trunc(running_total(f)))

----------------------------------------------------------------------------
(* The scoring function on its own: every feature vector of the bounded    *)
(* domain is scored once.                                                  *)

Totals == (1..MaxTx) \cup {10, 60}

RepaymentRates ==
    {FromInt(1)} \cup {Rat(r, b) : r \in 0..MaxRepays, b \in 1..MaxBorrows}

AgePairs ==
    {<<ad, age>> \in (1..MaxAge) \X (1..MaxAge) : ad <= age} \cup {<<10, 10>>}

AvgRates(t, age) == {Rat(t, age), FromInt(100), Rat(201, 2), FromInt(150)}

\* the scored fields of a feature vector
FeatureVector(t, rr, l, p, ua, avg) ==
    [ total_transactions       |-> t,
      repayment_rate           |-> rr,
      liquidation_ratio        |-> Rat(l, t),
      active_days              |-> p[1],
      account_age_days         |-> p[2],
      unique_assets            |-> ua,
      avg_transactions_per_day |-> avg ]

InitScore ==
    /\ \E t \in Totals, p \in AgePairs, rr \in RepaymentRates,
          l \in 0..MaxLiq, ua \in 0..MaxAssets :
          \E avg \in AvgRates(t, p[2]) :
              features = FeatureVector(t, rr, l, p, ua, avg)
    /\ running = FromInt(0)
    /\ final = 0
    /\ spc = "ready"
    /\ IdleMain
    /\ report_df = Empty

ScoreWallet ==
    /\ spc = "ready"
    /\ running' = running_total(features)
    /\ final' = calculate_wallet_score(features)
    /\ spc' = "scored"
    /\ UNCHANGED features
    /\ UNCHANGED mainVars
    /\ UNCHANGED toolVars

NextScore == ScoreWallet

SpecScore == InitScore /\ [][NextScore]_vars

----------------------------------------------------------------------------
(* Claims about the scoring function, checked under SpecScore              *)

Scored == spc = "scored"

\* the feature vector differs from the given one at most in its daily rate
SameButRate(f, t, rr, lr, ad, age, ua) ==
    /\ f.total_transactions = t
    /\ f.repayment_rate = rr
    /\ f.liquidation_ratio = lr
    /\ f.active_days = ad
    /\ f.account_age_days = age
    /\ f.unique_assets = ua

NotPenalised(f) ==
    f.avg_transactions_per_day.n <= 100 * f.avg_transactions_per_day.d

\* 60 transactions, no borrows, no liquidations, one asset, one active day
IsScenario60(f) ==
    /\ SameButRate(f, 60, FromInt(1), FromInt(0), 1, 1, 1)
    /\ NotPenalised(f)

\* 10 transactions, 3 borrows, 3 repays, two assets, ten active days of ten
IsScenario790(f) == SameButRate(f, 10, FromInt(1), FromInt(0), 10, 10, 2)

\* C1: every feature vector the feature engine can produce is scored with an
\* integer between 0 and 1000, both included.
C1_ScoreInRange == Scored => final \in 0..1000

\* C1 witness: a repayment rate above 1 drives the running total above 1000
\* and the returned score is the clamped 1000.
C1_Witness ==
    /\ Scored
    /\ RLt(FromInt(1), features.repayment_rate)
    /\ RLt(FromInt(1000), running)
    /\ final = 1000

\* C2 as amended: in the 60-transaction scenario the five components sum to
\* 920, the +50 bonus applies, the total of 970 is below the clamp and the
\* score returned is 970.
C2_Scenario60Is970 ==
    (Scored /\ IsScenario60(features)) =>
        /\ component_sum(features) = FromInt(920)
        /\ running = FromInt(970)
        /\ final = 970

\* C2 witness: the 60-transaction scenario has been scored.
C2_Witness == Scored /\ IsScenario60(features) /\ final = 970

\* C2 as originally stated: the 60-transaction scenario is scored 1000.
C2_Original_Scenario60Is1000 ==
    (Scored /\ IsScenario60(features)) => final = 1000

\* C5: a feature vector with more than 100 transactions per day has a
\* pre-truncation total that is exactly half the total of the same vector
\* with a rate of at most 100, the halving applying to the total that
\* includes the bonus; a rate of exactly 100 is not penalised; the 790-point
\* scenario with a rate of 150 is scored 395.
C5_PenaltyHalves ==
    Scored =>
        /\ (features.avg_transactions_per_day.n
              > 100 * features.avg_transactions_per_day.d) =>
              /\ \A t \in {FromInt(0), FromInt(1), FromInt(100)} :
                    RMul(running, FromInt(2)) =
                      running_total(
                        [features EXCEPT !.avg_transactions_per_day = t])
              /\ RMul(running, FromInt(2)) =
                    RAdd(component_sum(features),
                         IF /\ features.repayment_rate.n
                                 >= features.repayment_rate.d
                            /\ features.liquidation_ratio.n = 0
                         THEN FromInt(50) ELSE FromInt(0))
        /\ features.avg_transactions_per_day = FromInt(100) =>
              running = RAdd(component_sum(features),
                             IF /\ features.repayment_rate.n
                                     >= features.repayment_rate.d
                                /\ features.liquidation_ratio.n = 0
                             THEN FromInt(50) ELSE FromInt(0))
        /\ ( /\ IsScenario790(features)
             /\ features.avg_transactions_per_day = FromInt(150) ) =>
              final = 395

\* C5 witness: the 790-point scenario at 150 transactions per day was scored.
C5_Witness ==
    /\ Scored
    /\ IsScenario790(features)
    /\ features.avg_transactions_per_day = FromInt(150)
    /\ running = Rat(790, 2)
    /\ final = 395

\* C6: the +50 responsibility bonus is added to the sum of the five
\* components exactly when repayment_rate >= 1.0 and liquidation_ratio == 0,
\* before any halving; the scenario of 10 transactions has components
\* 50 + 300 + 200 + 150 + 40 = 740 and is scored 790.
C6_BonusRule ==
    Scored =>
        LET penalised == features.avg_transactions_per_day.n
                           > 100 * features.avg_transactions_per_day.d
            beforePenalty == IF penalised THEN RMul(running, FromInt(2))
                             ELSE running
            added == RSub(beforePenalty, component_sum(features))
            earned == /\ features.repayment_rate.n >= features.repayment_rate.d
                      /\ features.liquidation_ratio.n = 0
        IN  /\ earned => added = FromInt(50)
            /\ ~earned => added = FromInt(0)
            /\ ( /\ IsScenario790(features)
                 /\ features.avg_transactions_per_day = FromInt(1) ) =>
                   /\ volume_score(features) = FromInt(50)
                   /\ repayment_score(features) = FromInt(300)
                   /\ risk_score(features) = FromInt(200)
                   /\ consistency_score(features) = FromInt(150)
                   /\ diversity_score(features) = FromInt(40)
                   /\ component_sum(features) = FromInt(740)
                   /\ final = 790

\* C6 witness: the scenario of 10 transactions at one per day was scored 790.
C6_Witness ==
    /\ Scored
    /\ IsScenario790(features)
    /\ features.avg_transactions_per_day = FromInt(1)
    /\ final = 790

----------------------------------------------------------------------------
(* generate_score_report                                                   *)

bins == <<0, 100, 200, 300, 400, 500, 600, 700, 800, 900, 1000>>

\* numpy searchsorted(bins, x, side='left'): how many edges lie below x
searchsorted_left(x) == Cardinality({i \in 1..Len(bins) : bins[i] < x})

\* numpy searchsorted(bins, x, side='right'): how many edges are at most x
searchsorted_right(x) == Cardinality({i \in 1..Len(bins) : bins[i] <= x})

\* variant: pd.cut(..., right=False), intervals closed on the left
cut_left_closed(x) ==
    LET ids == searchsorted_right(x)
    IN  IF ids = 0 \/ ids = Len(bins) THEN 0 ELSE ids

\* variant: pd.cut without include_lowest
cut_without_lowest(x) ==
    LET ids == searchsorted_left(x)
    IN  IF ids = 0 \/ ids = Len(bins) THEN 0 ELSE ids

\* pd.cut(x, bins=bins, include_lowest=True) with the default right=True:
\* the number 1..10 of the interval (bins[i], bins[i+1]] holding x, the
\* lowest edge included in the first; 0 stands for NaN (no interval)
cut(x) ==
    LET found == searchsorted_left(x)
        ids == IF x = bins[1] THEN 1 ELSE found
    IN  IF ids = 0 \/ ids = Len(bins) THEN 0 ELSE ids

RECURSIVE SumOver(_, _)
SumOver(f, S) ==
    IF S = {} THEN 0
    ELSE LET w == CHOOSE w \in S : TRUE IN f[w] + SumOver(f, S \ {w})

\* the values of f over S in ascending order
RECURSIVE Sorted(_, _)
Sorted(f, S) ==
    IF S = {} THEN <<>>
    ELSE LET w == CHOOSE w \in S : \A v \in S : f[w] <= f[v]
         IN  <<f[w]>> \o Sorted(f, S \ {w})

mean(f) ==
    IF DOMAIN f = {} THEN NaN
    ELSE Rat(SumOver(f, DOMAIN f), Cardinality(DOMAIN f))

median(f) ==
    LET s == Sorted(f, DOMAIN f)
        k == Len(s)
    IN  IF k = 0 THEN NaN
        ELSE IF k % 2 = 1 THEN FromInt(s[(k + 1) \div 2])
        ELSE Rat(s[k \div 2] + s[k \div 2 + 1], 2)

\* score_df: credit_score joined with the wallet's features, plus score_range
make_score_df(sc, fdf) ==
    [w \in DOMAIN sc |->
        [credit_score |-> sc[w],
         features     |-> IF w \in DOMAIN fdf THEN <<fdf[w]>> ELSE <<>>,
         score_range  |-> cut(sc[w])]]

make_analysis(sc, sdf) ==
    [total_wallets      |-> Cardinality(DOMAIN sc),
     average_score      |-> mean(sc),
     median_score       |-> median(sc),
     score_distribution |->
        [i \in 1..(Len(bins) - 1) |->
            Cardinality({w \in DOMAIN sdf : sdf[w].score_range = i})],
     high_risk_wallets  |->
        Cardinality({w \in DOMAIN sdf : sdf[w].credit_score < 300}),
     excellent_wallets  |->
        Cardinality({w \in DOMAIN sdf : sdf[w].credit_score > 800})]

GenerateScoreReport ==
    /\ pc = "scored"
    /\ score_df' = make_score_df(scores, feature_df)
    /\ analysis' = make_analysis(scores, score_df')
    /\ pc' = "reported"
    /\ calls' = Append(calls, "generate_score_report")
    /\ UNCHANGED <<feature_df, scores, df, doc, printed, error, output, ret>>
    /\ UNCHANGED fieldVars
    /\ UNCHANGED scoreVars
    /\ UNCHANGED toolVars

----------------------------------------------------------------------------
(* The report on its own: any score mapping of up to MaxScored wallets     *)

MaxScored == 2

\* the edges of the buckets, their neighbours and some scores in between
ScoreSamples ==
    {bins[i] : i \in 1..Len(bins)}
      \cup {bins[i] + 1 : i \in 1..(Len(bins) - 1)}
      \cup {bins[i] - 1 : i \in 2..Len(bins)}
      \cup {50, 250, 950}

InitReport ==
    /\ \E k \in 0..MaxScored :
          scores \in [{Num(i) : i \in 1..k} -> ScoreSamples]
    /\ feature_df = Empty
    /\ score_df = Empty
    /\ analysis = Empty
    /\ pc = "scored"
    /\ IdleFrame
    /\ features = Empty
    /\ running = FromInt(0)
    /\ final = 0
    /\ spc = "idle"
    /\ report_df = Empty

NextReport == GenerateScoreReport

SpecReport == InitReport /\ [][NextReport]_vars

Reported == pc = "reported"

Boundaries == {bins[i] : i \in 2..(Len(bins) - 1)}

\* C3 as amended: the ten buckets are closed on the right, (0,100] with 0
\* included, (100,200], ..., (900,1000]: every boundary score in
\* {100, ..., 900} is counted in the bucket whose upper edge it is, score 0
\* is in the first bucket and score 1000 in the last.
C3_BoundaryInLowerBucket ==
    Reported =>
        \A w \in DOMAIN score_df :
            LET s == score_df[w].credit_score
                b == score_df[w].score_range
            IN  /\ s \in Boundaries => (b = s \div 100 /\ bins[b + 1] = s)
                /\ s = 0 => b = 1
                /\ s = 1000 => b = 10
                /\ analysis.score_distribution[b] >= 1

\* C3 witness: a report over a boundary score and the score 0.
C3_Witness ==
    /\ Reported
    /\ \E w \in DOMAIN score_df :
          score_df[w].credit_score = 300 /\ score_df[w].score_range = 3
    /\ \E w \in DOMAIN score_df :
          score_df[w].credit_score = 0 /\ score_df[w].score_range = 1

\* C3 as originally stated: every boundary score is counted in the bucket
\* whose lower edge it is.
C3_Original_BoundaryInUpperBucket ==
    Reported =>
        \A w \in DOMAIN score_df :
            LET s == score_df[w].credit_score
                b == score_df[w].score_range
            IN  /\ s \in Boundaries => (b = s \div 100 + 1 /\ bins[b] = s)
                /\ s = 0 => b = 1
                /\ s = 1000 => b = 10

\* C4: every score in [0,1000] is placed in exactly one of the ten buckets,
\* so the bucket counts of score_distribution sum to total_wallets.
C4_BucketsPartition ==
    Reported =>
        /\ \A w \in DOMAIN scores :
              /\ w \in DOMAIN score_df
              /\ score_df[w].score_range \in DOMAIN analysis.score_distribution
        /\ DOMAIN analysis.score_distribution = 1..10
        /\ SumOver(analysis.score_distribution, 1..10) = analysis.total_wallets
        /\ analysis.total_wallets = Cardinality(DOMAIN scores)

\* C4 witness: a report over two wallets, one scored 0 and one scored 1000.
C4_Witness ==
    /\ Reported
    /\ analysis.total_wallets = 2
    /\ analysis.score_distribution[1] = 1
    /\ analysis.score_distribution[10] = 1
    /\ \E w \in DOMAIN scores : scores[w] = 0
    /\ \E w \in DOMAIN scores : scores[w] = 1000

----------------------------------------------------------------------------
(* Strings                                                                 *)

to_lower ==
    "A" :> "a" @@ "B" :> "b" @@ "C" :> "c" @@ "D" :> "d" @@ "E" :> "e" @@
    "F" :> "f" @@ "G" :> "g" @@ "H" :> "h" @@ "I" :> "i" @@ "J" :> "j" @@
    "K" :> "k" @@ "L" :> "l" @@ "M" :> "m" @@ "N" :> "n" @@ "O" :> "o" @@
    "P" :> "p" @@ "Q" :> "q" @@ "R" :> "r" @@ "S" :> "s" @@ "T" :> "t" @@
    "U" :> "u" @@ "V" :> "v" @@ "W" :> "w" @@ "X" :> "x" @@ "Y" :> "y" @@
    "Z" :> "z"

\* str.lower()
lower(s) == [i \in 1..Len(s) |-> IF s[i] \in DOMAIN to_lower
                                  THEN to_lower[s[i]] ELSE s[i]]

\* `term in text`
contains(text, term) ==
    \E i \in 0..(Len(text) - Len(term)) :
        SubSeq(text, i + 1, i + Len(term)) = term

hex_digits ==
    {"0", "1", "2", "3", "4", "5", "6", "7", "8", "9",
     "a", "b", "c", "d", "e", "f", "A", "B", "C", "D", "E", "F"}

\* re.match(r'^0x[a-fA-F0-9]{40}$', text)
wallet_like(text) ==
    /\ Len(text) = 42
    /\ text[1] = "0"
    /\ text[2] = "x"
    /\ \A i \in 3..42 : text[i] \in hex_digits

digits == <<"0", "1", "2", "3", "4", "5", "6", "7", "8", "9">>

\* str(i) of a natural number
RECURSIVE int_str(_)
int_str(i) ==
    IF i < 10 THEN <<digits[i + 1]>>
    ELSE int_str(i \div 10) \o <<digits[(i % 10) + 1]>>

\* str(value) of a string or of a natural number
as_str(v) == IF v.t = "str" THEN v.s ELSE int_str(v.n)

----------------------------------------------------------------------------
(* detect_field_names                                                      *)

user_terms ==
    <<<<"u", "s", "e", "r">>,
      <<"w", "a", "l", "l", "e", "t">>,
      <<"a", "d", "d", "r", "e", "s", "s">>,
      <<"f", "r", "o", "m">>,
      <<"a", "c", "c", "o", "u", "n", "t">>>>
action_terms ==
    <<<<"a", "c", "t", "i", "o", "n">>,
      <<"t", "y", "p", "e">>,
      <<"e", "v", "e", "n", "t">>,
      <<"f", "u", "n", "c", "t", "i", "o", "n">>>>
timestamp_terms ==
    <<<<"t", "i", "m", "e", "s", "t", "a", "m", "p">>,
      <<"t", "i", "m", "e">>,
      <<"d", "a", "t", "e">>,
      <<"b", "l", "o", "c", "k">>>>
reserve_terms ==
    <<<<"r", "e", "s", "e", "r", "v", "e">>,
      <<"a", "s", "s", "e", "t">>,
      <<"t", "o", "k", "e", "n">>,
      <<"u", "n", "d", "e", "r", "l", "y", "i", "n", "g">>>>

\* df[col]: the values of the column at position c
column(frame, c) == [i \in 1..Len(frame.rows) |-> frame.rows[i][c]]

IsNull(v) == v.t = "null"

\* Series.dropna()
dropna(values) == SelectSeq(values, LAMBDA v : ~IsNull(v))

\* Series.head(k)
head(values, k) == SubSeq(values, 1, IMin(k, Len(values)))

\* dtype == 'object': the column holds a value that is no number (dropna
\* and head keep the dtype of the column)
is_object(values) == \E i \in 1..Len(values) : values[i].t = "str"

\* any(term in col.lower() for term in terms)
matches(col, terms) ==
    \E k \in 1..Len(terms) : contains(lower(col.s), terms[k])

\* [col for col in columns if any(...)]
candidates(columns, terms) == SelectSeq(columns, LAMBDA col : matches(col, terms))

\* the fallback loop over the columns, from position c on
RECURSIVE address_column(_, _)
address_column(frame, c) ==
    IF c > Len(frame.columns) THEN Null
    ELSE LET sample_values == head(dropna(column(frame, c)), 10)
         IN  IF /\ is_object(column(frame, c))
                /\ \E i \in 1..Len(sample_values) :
                      wallet_like(as_str(sample_values[i]))
             THEN frame.columns[c]
             ELSE address_column(frame, c + 1)

\* variant: the last candidate instead of the first
first_candidate_last(columns, terms) ==
    LET found == candidates(columns, terms)
    IN  IF Len(found) > 0 THEN found[Len(found)] ELSE Null

\* candidates[0] if there are candidates, else the field keeps its None
first_candidate(columns, terms) ==
    LET found == candidates(columns, terms)
    IN  IF Len(found) > 0 THEN found[1] ELSE Null

detect_user_field(frame) ==
    LET user_candidates == candidates(frame.columns, user_terms)
    IN  IF Len(user_candidates) > 0 THEN user_candidates[1]
        ELSE address_column(frame, 1)

\* variant: a check that never finds the field missing
falsy_never(field) == FALSE

\* `not self.user_field`: None or the empty string
falsy(field) == IsNull(field) \/ field.s = <<>>

\* the assignments of detect_field_names, whether or not it then raises
DetectFields(frame) ==
    /\ user_field' = detect_user_field(frame)
    /\ action_field' = first_candidate(frame.columns, action_terms)
    /\ timestamp_field' = first_candidate(frame.columns, timestamp_terms)
    /\ reserve_field' = first_candidate(frame.columns, reserve_terms)

----------------------------------------------------------------------------
(* Schema detection on its own: frames of up to MaxCols columns, one row   *)

MaxCols == 2

col_userWallet == Str(<<"u", "s", "e", "r", "W", "a", "l", "l", "e", "t">>)
col_accountType == Str(<<"a", "c", "c", "o", "u", "n", "t", "T", "y", "p", "e">>)
col_assetAddress == Str(<<"a", "s", "s", "e", "t", "A", "d", "d", "r", "e", "s", "s">>)
col_Timestamp == Str(<<"T", "i", "m", "e", "s", "t", "a", "m", "p">>)
col_blockTime == Str(<<"b", "l", "o", "c", "k", "T", "i", "m", "e">>)
col_ACTION == Str(<<"A", "C", "T", "I", "O", "N">>)
col_txHash == Str(<<"t", "x", "H", "a", "s", "h">>)
col_id == Str(<<"i", "d">>)
col_blank == Str(<<>>)

col_reserve == Str(<<"r", "e", "s", "e", "r", "v", "e">>)
col_amount == Str(<<"a", "m", "o", "u", "n", "t">>)

ColumnNames ==
    {col_userWallet, col_accountType, col_assetAddress, col_Timestamp,
     col_blockTime, col_ACTION, col_txHash, col_id, col_blank, col_reserve}

address_a == Str(<<"0", "x">> \o [i \in 1..40 |-> "a"])

CellValues == {address_a, Str(<<"1">>), Num(1), Null}

Distinct(seq) == \A i, j \in 1..Len(seq) : i # j => seq[i] # seq[j]

\* the DataFrames of one row whose columns are distinct names
InitDetect ==
    /\ \E k \in 0..MaxCols :
          \E cs \in [1..k -> ColumnNames], r \in [1..k -> CellValues] :
              /\ Distinct(cs)
              /\ df = [columns |-> cs, rows |-> <<r>>]
    /\ NoFields
    /\ pc = "detect"
    /\ NoRun
    /\ feature_df = Empty
    /\ scores = Empty
    /\ score_df = Empty
    /\ analysis = Empty
    /\ features = Empty
    /\ running = FromInt(0)
    /\ final = 0
    /\ spc = "idle"
    /\ report_df = Empty

DetectFieldNames ==
    /\ pc = "detect"
    /\ DetectFields(df)
    /\ pc' = IF falsy(user_field') THEN "raised" ELSE "detected"
    /\ UNCHANGED <<feature_df, scores, score_df, analysis, df>>
    /\ UNCHANGED runVars
    /\ UNCHANGED scoreVars
    /\ UNCHANGED toolVars

NextDetect == DetectFieldNames

SpecDetect == InitDetect /\ [][NextDetect]_vars

\* the roles each column name of ColumnNames carries a keyword of
RolesOf(col) ==
    IF col = col_userWallet THEN {"wallet"}
    ELSE IF col = col_accountType THEN {"wallet", "action"}
    ELSE IF col = col_assetAddress THEN {"wallet", "asset"}
    ELSE IF col = col_Timestamp THEN {"timestamp"}
    ELSE IF col = col_blockTime THEN {"timestamp"}
    ELSE IF col = col_ACTION THEN {"action"}
    ELSE IF col = col_reserve THEN {"asset"}
    ELSE {}

\* the first column in column order that carries a keyword of the role,
\* Null when none does
FirstNamed(role) ==
    LET named == {i \in 1..Len(df.columns) : role \in RolesOf(df.columns[i])}
    IN  IF named = {} THEN Null
        ELSE df.columns[CHOOSE i \in named : \A j \in named : i <= j]

\* the first column in column order one of whose values is an address
FirstWithAddress ==
    LET holds == {i \in 1..Len(df.columns) :
                    \E r \in 1..Len(df.rows) : df.rows[r][i] = address_a}
    IN  IF holds = {} THEN Null
        ELSE df.columns[CHOOSE i \in holds : \A j \in holds : i <= j]

DetectionRan == pc \in {"detected", "raised"}

\* C8: each of the four roles gets at most one column, the first column in
\* column order whose lower-cased name contains a keyword of the role, each
\* role choosing on its own; the address pattern on the values is consulted
\* for the wallet role only and only when no name matches a wallet keyword;
\* action, timestamp and asset stay None when no name matches.
C8_FirstMatchPerRole ==
    DetectionRan =>
        /\ action_field = FirstNamed("action")
        /\ timestamp_field = FirstNamed("timestamp")
        /\ reserve_field = FirstNamed("asset")
        /\ user_field = IF FirstNamed("wallet") # Null THEN FirstNamed("wallet")
                        ELSE FirstWithAddress

\* C8 witness: no name carries a wallet keyword, the wallet column is found
\* by its address values and another column is the action column.
C8_Witness ==
    /\ pc = "detected"
    /\ FirstNamed("wallet") = Null
    /\ user_field = col_txHash
    /\ action_field = col_ACTION
    /\ timestamp_field = Null

----------------------------------------------------------------------------
(* load_transactions                                                       *)

\* a JSON array of records, as the DataFrame pd.DataFrame(array) makes of it
List(frame) == [t |-> "list", frame |-> frame]

\* a JSON object, its entries in document order
Dict(entries) == [t |-> "dict", entries |-> entries]

IsList(v) == v.t = "list"

possible_keys == <<"transactions", "data", "records", "events">>

\* key in data
has_key(entries, key) == \E i \in 1..Len(entries) : entries[i].key = key

\* the entry of data[key]
entry_of(entries, key) ==
    entries[CHOOSE i \in 1..Len(entries) : entries[i].key = key]

\* the loop over possible_keys from position k on: the first of them that
\* is in data with a list as its value
RECURSIVE common_key(_, _)
common_key(entries, k) ==
    IF k > Len(possible_keys) THEN ""
    ELSE IF /\ has_key(entries, possible_keys[k])
            /\ IsList(entry_of(entries, possible_keys[k]).value)
         THEN possible_keys[k]
         ELSE common_key(entries, k + 1)

\* variant: any list, empty or not, stops the loop over data.items()
RECURSIVE first_list_key_any(_, _)
first_list_key_any(entries, i) ==
    IF i > Len(entries) THEN ""
    ELSE IF IsList(entries[i].value) THEN entries[i].key
         ELSE first_list_key_any(entries, i + 1)

\* the loop over data.items() from position i on: the first entry whose
\* value is a list and is truthy (not empty)
RECURSIVE first_list_key(_, _)
first_list_key(entries, i) ==
    IF i > Len(entries) THEN ""
    ELSE IF /\ IsList(entries[i].value)
            /\ Len(entries[i].value.frame.rows) > 0
         THEN entries[i].key
         ELSE first_list_key(entries, i + 1)

\* the structure detection of load_transactions: the DataFrame built and
\* the key printed, or the message of the ValueError raised
select_frame(d) ==
    IF d.t = "list"
    THEN [error |-> "", key |-> "", frame |-> d.frame]
    ELSE IF d.t = "dict"
    THEN LET common == common_key(d.entries, 1)
             other == first_list_key(d.entries, 1)
         IN  IF common # ""
             THEN [error |-> "", key |-> common,
                   frame |-> entry_of(d.entries, common).value.frame]
             ELSE IF other # ""
             THEN [error |-> "", key |-> other,
                   frame |-> entry_of(d.entries, other).value.frame]
             ELSE [error |-> "Could not find transaction data in JSON structure",
                   key |-> "", frame |-> EmptyFrame]
    ELSE [error |-> "Unexpected JSON structure", key |-> "",
          frame |-> EmptyFrame]

\* main's try block up to the return of load_transactions; an exception is
\* caught by main, which prints it and returns (None, None, None)
LoadTransactions ==
    /\ pc = "start"
    /\ calls' = Append(calls, "load_transactions")
    /\ LET sel == select_frame(doc)
       IN  IF sel.error # ""
           THEN /\ error' = sel.error
                /\ pc' = "failed"
                /\ ret' = "none"
                /\ UNCHANGED <<df, printed>>
                /\ UNCHANGED fieldVars
           ELSE /\ printed' = sel.key
                /\ DetectFields(sel.frame)
                /\ IF falsy(user_field')
                   THEN /\ error' = "Cannot proceed without wallet identifier field"
                        /\ pc' = "failed"
                        /\ ret' = "none"
                        /\ UNCHANGED df
                   ELSE /\ df' = sel.frame
                        /\ pc' = "loaded"
                        /\ UNCHANGED <<error, ret>>
    /\ UNCHANGED <<feature_df, scores, score_df, analysis, doc, output>>
    /\ UNCHANGED scoreVars
    /\ UNCHANGED toolVars

----------------------------------------------------------------------------
(* preprocess_data                                                         *)

is_digits(text) ==
    /\ Len(text) > 0
    /\ \A i \in 1..Len(text) : \E k \in 1..10 : digits[k] = text[i]

\* int(text) of a string of digits
RECURSIVE int_of(_)
int_of(text) ==
    IF Len(text) = 0 THEN 0
    ELSE 10 * int_of(SubSeq(text, 1, Len(text) - 1))
           + (CHOOSE k \in 0..9 : digits[k + 1] = text[Len(text)])

\* pd.to_numeric(value, errors='coerce')
to_numeric(v) ==
    IF v.t = "num" THEN v
    ELSE IF v.t = "str" /\ is_digits(v.s) THEN Num(int_of(v.s))
    ELSE Null

\* pd.to_datetime(value, unit='s', errors='coerce'): NaT is Null
to_datetime(v) ==
    LET number == to_numeric(v)
    IN  IF IsNull(number) THEN Null ELSE [t |-> "datetime", sec |-> number.n]

\* col in df.columns
has_column(frame, col) ==
    \E c \in 1..Len(frame.columns) : frame.columns[c] = col

\* the position of a column that is in df.columns
col_index(frame, col) ==
    CHOOSE c \in 1..Len(frame.columns) : frame.columns[c] = col

\* df[col] = pd.to_numeric(df[col], errors='coerce')
numeric_column(frame, c) ==
    [frame EXCEPT !.rows =
        [i \in 1..Len(frame.rows) |->
            [frame.rows[i] EXCEPT ![c] = to_numeric(frame.rows[i][c])]]]

\* df[col] = pd.to_datetime(df[col], unit='s', errors='coerce')
datetime_column(frame, c) ==
    [frame EXCEPT !.rows =
        [i \in 1..Len(frame.rows) |->
            [frame.rows[i] EXCEPT ![c] = to_datetime(frame.rows[i][c])]]]

s_amount == <<"a", "m", "o", "u", "n", "t">>
s_value == <<"v", "a", "l", "u", "e">>

\* 'amount' in col.lower() or 'value' in col.lower()
is_amount_col(col) ==
    contains(lower(col.s), s_amount) \/ contains(lower(col.s), s_value)

\* the loop over amount_cols, from column c on
RECURSIVE convert_amounts(_, _)
convert_amounts(frame, c) ==
    IF c > Len(frame.columns) THEN frame
    ELSE convert_amounts(
           IF is_amount_col(frame.columns[c])
           THEN numeric_column(frame, c) ELSE frame,
           c + 1)

convert_timestamps(frame, tf) ==
    IF ~falsy(tf) /\ has_column(frame, tf)
    THEN datetime_column(frame, col_index(frame, tf))
    ELSE frame

\* df.dropna(subset=[user_field])
drop_missing_wallets(frame, uf) ==
    [frame EXCEPT !.rows =
        SelectSeq(frame.rows, LAMBDA r : ~IsNull(r[col_index(frame, uf)]))]

preprocess_data(frame, uf, tf) ==
    drop_missing_wallets(convert_amounts(convert_timestamps(frame, tf), 1), uf)

\* main: df = scorer.preprocess_data(df); a subset column that is not in
\* the DataFrame is a KeyError, which main catches
PreprocessData ==
    /\ pc = "loaded"
    /\ calls' = Append(calls, "preprocess_data")
    /\ IF ~IsNull(user_field) /\ has_column(df, user_field)
       THEN /\ df' = preprocess_data(df, user_field, timestamp_field)
            /\ pc' = "preprocessed"
            /\ UNCHANGED <<error, ret>>
       ELSE /\ error' = "KeyError"
            /\ pc' = "failed"
            /\ ret' = "none"
            /\ UNCHANGED df
    /\ UNCHANGED <<feature_df, scores, score_df, analysis, doc, printed,
                   output>>
    /\ UNCHANGED fieldVars
    /\ UNCHANGED scoreVars
    /\ UNCHANGED toolVars

----------------------------------------------------------------------------
(* engineer_features and _calculate_wallet_features                        *)

Range(seq) == {seq[i] : i \in 1..Len(seq)}

\* variant: wallets told apart by their text only
unique_by_text(values) ==
    {v \in Range(values) :
        \A u \in Range(values) : as_str(u) = as_str(v) => (u.t = "str" \/ u = v)}

\* Series.unique(): the distinct values
unique(values) == Range(values)

\* variant: Series.nunique(dropna=False), a missing value counts as a value
nunique_with_missing(values) == Cardinality(Range(values))

\* Series.nunique(): the number of distinct values that are not missing
nunique(values) == Cardinality(Range(dropna(values)))

\* variant: no selection, every wallet is given the whole dataset
wallet_rows_all(frame, uf, wallet) == frame

\* df[df[user_field] == wallet]
wallet_rows(frame, uf, wallet) ==
    [frame EXCEPT !.rows =
        SelectSeq(frame.rows, LAMBDA r : r[col_index(frame, uf)] = wallet)]

\* action_counts.get(label, 0)
count_of(values, label) ==
    Cardinality({i \in 1..Len(values) : values[i] = label})

s_liquidat == <<"l", "i", "q", "u", "i", "d", "a", "t">>
s_repay == <<"r", "e", "p", "a", "y">>
s_borrow == <<"b", "o", "r", "r", "o", "w">>
s_deposit == <<"d", "e", "p", "o", "s", "i", "t">>

\* the branch of the if/elif chain an action value takes
variation(action_type) ==
    LET text == lower(as_str(action_type))
    IN  IF contains(text, s_liquidat) THEN "liquidations"
        ELSE IF contains(text, s_repay) THEN "repays"
        ELSE IF contains(text, s_borrow) THEN "borrows"
        ELSE IF contains(text, s_deposit) THEN "deposits"
        ELSE "none"

\* what the loop over action_counts.index adds to one of the counters
added_by_variations(values, counter) ==
    Cardinality({i \in 1..Len(values) : variation(values[i]) = counter})

\* epoch seconds to calendar day: Timestamp.date()
date_of(ts) == ts.sec \div 86400

SetMax(S) == CHOOSE x \in S : \A y \in S : y <= x
SetMin(S) == CHOOSE x \in S : \A y \in S : x <= y

calculate_wallet_features(wallet_data, af, tf, rf) ==
    LET total == Len(wallet_data.rows)
        has_action == ~falsy(af) /\ has_column(wallet_data, af)
        actions == IF has_action
                   THEN dropna(column(wallet_data, col_index(wallet_data, af)))
                   ELSE <<>>
        deposits == IF has_action
                    THEN count_of(actions, v_deposit)
                           + added_by_variations(actions, "deposits")
                    ELSE total
        borrows == IF has_action
                   THEN count_of(actions, v_borrow)
                          + added_by_variations(actions, "borrows")
                   ELSE 0
        repays == IF has_action
                  THEN count_of(actions, v_repay)
                         + added_by_variations(actions, "repays")
                  ELSE 0
        liquidations == IF has_action
                        THEN count_of(actions, v_liquidationcall)
                               + added_by_variations(actions, "liquidations")
                        ELSE 0
        redeems == IF has_action THEN count_of(actions, v_redeemunderlying)
                   ELSE 0
        has_time == ~falsy(tf) /\ has_column(wallet_data, tf)
        timestamps == IF has_time
                      THEN dropna(column(wallet_data, col_index(wallet_data, tf)))
                      ELSE <<>>
        dates == {date_of(timestamps[i]) : i \in 1..Len(timestamps)}
        dated == has_time /\ Len(timestamps) > 0
        age == IF dated THEN (SetMax(dates) - SetMin(dates)) + 1 ELSE 1
        has_reserve == ~falsy(rf) /\ has_column(wallet_data, rf)
    IN  [ total_transactions       |-> total,
          unique_actions           |-> IF has_action
                                       THEN Cardinality(Range(actions)) ELSE 1,
          deposits                 |-> deposits,
          borrows                  |-> borrows,
          repays                   |-> repays,
          liquidations             |-> liquidations,
          redeems                  |-> redeems,
          liquidation_ratio        |-> Rat(liquidations, IMax(total, 1)),
          borrow_ratio             |-> Rat(borrows, IMax(total, 1)),
          repayment_rate           |-> IF borrows > 0 THEN Rat(repays, borrows)
                                       ELSE FromInt(1),
          active_days              |-> IF dated THEN Cardinality(dates) ELSE 1,
          account_age_days         |-> age,
          avg_transactions_per_day |-> IF dated THEN Rat(total, IMax(age, 1))
                                       ELSE FromInt(total),
          unique_assets            |->
              IF has_reserve
              THEN nunique(column(wallet_data, col_index(wallet_data, rf)))
              ELSE 1 ]

engineer_features(frame, uf, af, tf, rf) ==
    [wallet \in unique(column(frame, col_index(frame, uf))) |->
        calculate_wallet_features(wallet_rows(frame, uf, wallet), af, tf, rf)]

EngineerFeatures ==
    /\ pc = "preprocessed"
    /\ calls' = Append(calls, "engineer_features")
    /\ feature_df' = engineer_features(df, user_field, action_field,
                                       timestamp_field, reserve_field)
    /\ pc' = "engineered"
    /\ UNCHANGED <<scores, score_df, analysis, df, doc, printed, error,
                   output, ret>>
    /\ UNCHANGED fieldVars
    /\ UNCHANGED scoreVars
    /\ UNCHANGED toolVars

----------------------------------------------------------------------------
(* calculate_scores                                                        *)

calculate_scores(fdf) ==
    [wallet \in DOMAIN fdf |-> calculate_wallet_score(fdf[wallet])]

CalculateScores ==
    /\ pc = "engineered"
    /\ calls' = Append(calls, "calculate_scores")
    /\ scores' = calculate_scores(feature_df)
    /\ pc' = "scored"
    /\ UNCHANGED <<feature_df, score_df, analysis, df, doc, printed, error,
                   output, ret>>
    /\ UNCHANGED fieldVars
    /\ UNCHANGED scoreVars
    /\ UNCHANGED toolVars

----------------------------------------------------------------------------
(* save_results                                                            *)

\* the wallets in the order of the scores dict: first appearance in df
RECURSIVE first_seen(_, _)
first_seen(values, seen) ==
    IF Len(values) = 0 THEN <<>>
    ELSE IF Head(values) \in seen THEN first_seen(Tail(values), seen)
    ELSE <<Head(values)>> \o first_seen(Tail(values), seen \cup {Head(values)})

\* {str(k): int(v) for k, v in scores.items()}: a later wallet with the
\* same text replaces an earlier one
clean_scores(sc, order) ==
    [k \in {as_str(w) : w \in DOMAIN sc} |->
        LET at == {i \in 1..Len(order) : as_str(order[i]) = k}
        IN  sc[order[SetMax(at)]]]

\* the document written, but for its generation time
results(sc, an, order, uf, af, tf, rf) ==
    [ model_version        |-> "1.0",
      total_wallets_scored |-> Cardinality(DOMAIN sc),
      field_mappings       |-> [user_field |-> uf, action_field |-> af,
                                timestamp_field |-> tf, reserve_field |-> rf],
      analysis             |-> an,
      wallet_scores        |-> clean_scores(sc, order) ]

\* main: the summary is printed, save_results writes the document and main
\* returns (scores, analysis, score_df)
SaveResults ==
    /\ pc = "reported"
    /\ calls' = Append(calls, "save_results")
    /\ output' = results(scores, analysis,
                         first_seen(column(df, col_index(df, user_field)), {}),
                         user_field, action_field, timestamp_field,
                         reserve_field)
    /\ ret' = "results"
    /\ pc' = "done"
    /\ UNCHANGED <<feature_df, scores, score_df, analysis, df, doc, printed,
                   error>>
    /\ UNCHANGED fieldVars
    /\ UNCHANGED scoreVars
    /\ UNCHANGED toolVars

----------------------------------------------------------------------------
(* Input documents                                                         *)

MaxRows == 3
MaxEntries == 2


\* transaction records: wallet, action, timestamp (epoch seconds), asset
Records ==
    { <<address_a, v_deposit, Num(0), v_USDC>>,
      <<address_a, v_borrow, Num(86400), v_DAI>>,
      <<address_a, v_repay, Num(90000), v_USDC>>,
      <<address_a, v_liquidationcall, Null, Null>>,
      <<Str(<<"1">>), v_Repay, Num(172800), Null>>,
      <<Str(<<"1">>), v_redeemunderlying, Null, v_USDC>>,
      <<Num(1), v_borrow, Num(0), v_DAI>>,
      <<Null, v_deposit, Num(0), v_USDC>> }

\* the column layouts of a dataset: which of the four values of a record
\* each named column holds
Layouts ==
    { <<[name |-> col_userWallet, slot |-> 1], [name |-> col_ACTION, slot |-> 2],
        [name |-> col_Timestamp, slot |-> 3], [name |-> col_reserve, slot |-> 4]>>,
      <<[name |-> col_id, slot |-> 1]>>,
      <<[name |-> col_userWallet, slot |-> 1], [name |-> col_amount, slot |-> 4]>>,
      <<[name |-> col_txHash, slot |-> 2]>> }

\* pd.DataFrame(records) for records laid out by `layout`: no records, no
\* columns
frame_of(layout, records) ==
    IF Len(records) = 0 THEN EmptyFrame
    ELSE [columns |-> [c \in 1..Len(layout) |-> layout[c].name],
          rows |-> [i \in 1..Len(records) |->
                      [c \in 1..Len(layout) |-> records[i][layout[c].slot]]]]

full_layout ==
    <<[name |-> col_userWallet, slot |-> 1], [name |-> col_ACTION, slot |-> 2],
      [name |-> col_Timestamp, slot |-> 3], [name |-> col_reserve, slot |-> 4]>>

\* the values of a keyed document: two datasets, an empty list, a number
EntryValues ==
    { List(frame_of(full_layout, <<<<address_a, v_deposit, Num(0), v_USDC>>>>)),
      List(frame_of(full_layout, <<<<Num(1), v_borrow, Num(0), v_DAI>>>>)),
      List(EmptyFrame),
      Num(1) }

EntryKeys == {"transactions", "data", "records", "events", "txs", "meta"}

\* the lengths of the long arrays: a wallet with as many transactions as the
\* limit of the bot penalty, and with one more
BulkSizes == {100, 101}

\* json.load(f): an array of up to MaxRows records in one of the layouts, a
\* long array of one wallet's records, an object of up to MaxEntries entries
\* with distinct keys, or a number
Init ==
    /\ \/ \E l \in Layouts, k \in 0..MaxRows :
             \E rs \in [1..k -> Records] : doc = List(frame_of(l, rs))
       \/ \E l \in Layouts, n \in BulkSizes, r \in Records :
             doc = List(frame_of(l, [i \in 1..n |-> r]))
       \/ \E k \in 0..MaxEntries :
             \E ks \in [1..k -> EntryKeys], vs \in [1..k -> EntryValues] :
                 /\ Distinct(ks)
                 /\ doc = Dict([i \in 1..k |-> [key |-> ks[i], value |-> vs[i]]])
       \/ doc = Num(1)
    /\ pc = "start"
    /\ printed = ""
    /\ error = ""
    /\ output = Empty
    /\ ret = ""
    /\ calls = <<>>
    /\ df = EmptyFrame
    /\ NoFields
    /\ feature_df = Empty
    /\ scores = Empty
    /\ score_df = Empty
    /\ analysis = Empty
    /\ features = Empty
    /\ running = FromInt(0)
    /\ final = 0
    /\ spc = "idle"
    /\ report_df = Empty

Next ==
    \/ LoadTransactions
    \/ PreprocessData
    \/ EngineerFeatures
    \/ CalculateScores
    \/ GenerateScoreReport
    \/ SaveResults

Spec == Init /\ [][Next]_vars

----------------------------------------------------------------------------
(* Claims about load_transactions, checked under Spec                      *)

LoadReturned == pc # "start"

NotFoundError == "Could not find transaction data in JSON structure"
UnexpectedError == "Unexpected JSON structure"

Recognized == {"transactions", "data", "records", "events"}

\* positions of the entries of the keyed document that hold a list under a
\* recognized key, that hold any list, that hold a list with elements
RecognizedLists ==
    {i \in 1..Len(doc.entries) :
        doc.entries[i].key \in Recognized /\ doc.entries[i].value.t = "list"}
AnyLists ==
    {i \in 1..Len(doc.entries) : doc.entries[i].value.t = "list"}
NonEmptyLists ==
    {i \in AnyLists : doc.entries[i].value.frame.rows # <<>>}

First(S) == CHOOSE i \in S : \A j \in S : i <= j

\* the load used the list at entry i: it printed its key and, when the
\* wallet column was found, returned its DataFrame
Used(i) ==
    /\ printed = doc.entries[i].key
    /\ error \notin {NotFoundError, UnexpectedError}
    /\ pc = "loaded" => df = doc.entries[i].value.frame

\* C9 as amended: a top-level sequence is used as is; in a keyed document a
\* sequence under a recognized key is used; failing those, the first
\* non-empty sequence-valued entry in document order is used; the load
\* fails to find a sequence only when the keyed document holds no sequence
\* under a recognized key and no non-empty sequence at all.
C9_FirstNonEmptySequence ==
    LoadReturned =>
        /\ doc.t = "list" =>
              /\ error \notin {NotFoundError, UnexpectedError}
              /\ pc = "loaded" => df = doc.frame
        /\ (doc.t = "dict" /\ RecognizedLists # {}) =>
              \E i \in RecognizedLists : Used(i)
        /\ (doc.t = "dict" /\ RecognizedLists = {} /\ NonEmptyLists # {}) =>
              Used(First(NonEmptyLists))
        /\ (doc.t = "dict" /\ RecognizedLists = {} /\ NonEmptyLists = {}) =>
              error = NotFoundError
        /\ error = NotFoundError =>
              (doc.t = "dict" /\ RecognizedLists = {} /\ NonEmptyLists = {})

\* C9 witness: an empty list under an unrecognized key comes first and is
\* passed over for the dataset that follows it.
C9_Witness ==
    /\ pc = "loaded"
    /\ doc.t = "dict"
    /\ RecognizedLists = {}
    /\ AnyLists = {1, 2}
    /\ NonEmptyLists = {2}
    /\ printed = doc.entries[2].key
    /\ df = doc.entries[2].value.frame

\* C9 as originally stated: failing the recognized keys, the first
\* sequence-valued entry in document order is used whatever its length, and
\* the load fails only when the document holds no sequence at all.
C9_Original_FirstSequenceAnyLength ==
    LoadReturned =>
        /\ (doc.t = "dict" /\ RecognizedLists = {} /\ AnyLists # {}) =>
              Used(First(AnyLists))
        /\ error = NotFoundError => (doc.t = "dict" /\ AnyLists = {})

----------------------------------------------------------------------------
(* Claims about a run of main, checked under Spec                          *)

\* the list the document offers as its transaction sequence, by the rule of
\* C9; there is none when HasSequence is false
HasSequence ==
    \/ doc.t = "list"
    \/ doc.t = "dict" /\ (RecognizedLists # {} \/ NonEmptyLists # {})

\* is there a list under this key of the keyed document
ListUnder(key) ==
    \E i \in RecognizedLists : doc.entries[i].key = key

FrameUnder(key) ==
    doc.entries[CHOOSE i \in RecognizedLists :
                   doc.entries[i].key = key].value.frame

OfferedFrame ==
    IF doc.t = "list" THEN doc.frame
    ELSE IF ListUnder("transactions") THEN FrameUnder("transactions")
    ELSE IF ListUnder("data") THEN FrameUnder("data")
    ELSE IF ListUnder("records") THEN FrameUnder("records")
    ELSE IF ListUnder("events") THEN FrameUnder("events")
    ELSE doc.entries[First(NonEmptyLists)].value.frame

\* a column of the frame is named as a wallet column or holds an address
WalletDetectable(frame) ==
    \E c \in 1..Len(frame.columns) :
        \/ "wallet" \in RolesOf(frame.columns[c])
        \/ \E r \in 1..Len(frame.rows) : frame.rows[r][c] = address_a

Fatal == ~HasSequence \/ ~WalletDetectable(OfferedFrame)

AfterLoad ==
    {"preprocess_data", "engineer_features", "calculate_scores",
     "generate_score_report", "save_results"}

\* C7: when no wallet column can be detected or no transaction sequence can
\* be located, the run aborts before preprocess_data, engineer_features,
\* calculate_scores, generate_score_report or save_results is executed: no
\* wallet is scored, no output document is written and main returns
\* (None, None, None).
C7_FatalAbortsBeforeScoring ==
    (LoadReturned /\ Fatal) =>
        /\ pc = "failed"
        /\ error # ""
        /\ \A i \in 1..Len(calls) : calls[i] \notin AfterLoad
        /\ feature_df = Empty
        /\ scores = Empty
        /\ analysis = Empty
        /\ output = Empty
        /\ ret = "none"

\* C7 witness: a dataset whose only column is neither named as a wallet
\* column nor holds addresses ended the run in load_transactions.
C7_Witness ==
    /\ pc = "failed"
    /\ doc.t = "list"
    /\ Len(doc.frame.rows) = MaxRows
    /\ error = "Cannot proceed without wallet identifier field"
    /\ calls = <<"load_transactions">>
    /\ ret = "none"

\* the wallet identifiers of the cleaned dataset
CleanedWallets ==
    {df.rows[i][col_index(df, user_field)] : i \in 1..Len(df.rows)}

RowsOf(w) ==
    Cardinality({i \in 1..Len(df.rows) :
                   df.rows[i][col_index(df, user_field)] = w})

\* C10: engineer_features followed by calculate_scores gives exactly one
\* feature vector and one score record to each distinct wallet identifier of
\* the cleaned dataset and none to any other; total_transactions of each
\* vector is the number of that wallet's rows, at least 1.
C10_OneVectorPerWallet ==
    /\ pc \in {"engineered", "scored", "reported", "done"} =>
          /\ DOMAIN feature_df = CleanedWallets
          /\ \A w \in DOMAIN feature_df :
                /\ feature_df[w].total_transactions = RowsOf(w)
                /\ feature_df[w].total_transactions >= 1
    /\ pc \in {"scored", "reported", "done"} =>
          DOMAIN scores = CleanedWallets

\* C10 witness: three wallets, among them the number 1 and the string "1",
\* each got its vector and its score.
C10_Witness ==
    /\ pc = "scored"
    /\ Cardinality(CleanedWallets) = 3
    /\ DOMAIN scores = {address_a, Str(<<"1">>), Num(1)}
    /\ \A w \in DOMAIN feature_df : feature_df[w].total_transactions = 1

\* the asset values that are present in the rows of wallet w
AssetsOf(w) ==
    {df.rows[i][col_index(df, reserve_field)] :
        i \in {j \in 1..Len(df.rows) :
                 /\ df.rows[j][col_index(df, user_field)] = w
                 /\ ~IsNull(df.rows[j][col_index(df, reserve_field)])}}

Engineered == pc \in {"engineered", "scored", "reported", "done"}

\* C11 as stated: every feature vector has unique_assets >= 1; it is the
\* number of distinct asset values of the wallet's rows when the asset role is
\* assigned, also when some or all of them are missing, and 1 when the asset
\* role is not assigned.
C11_Original_AtLeastOneAsset ==
    Engineered =>
        \A w \in DOMAIN feature_df :
            /\ feature_df[w].unique_assets >= 1
            /\ reserve_field # Null =>
                  feature_df[w].unique_assets = Cardinality(AssetsOf(w))
            /\ reserve_field = Null => feature_df[w].unique_assets = 1

\* C11: every feature vector has unique_assets >= 0; with the asset role
\* assigned it is the number of distinct asset values present in the wallet's
\* rows, which is 0 exactly when all of them are missing, and it is 1 when the
\* asset role is not assigned.
C11_AssetCount ==
    Engineered =>
        \A w \in DOMAIN feature_df :
            /\ feature_df[w].unique_assets >= 0
            /\ reserve_field # Null =>
                  /\ feature_df[w].unique_assets = Cardinality(AssetsOf(w))
                  /\ feature_df[w].unique_assets = 0 <=> AssetsOf(w) = {}
            /\ reserve_field = Null => feature_df[w].unique_assets = 1

\* C11 witness: with the asset role assigned, a wallet whose asset values are
\* all missing got unique_assets = 0 next to a wallet with two assets.
C11_Witness ==
    /\ pc = "engineered"
    /\ reserve_field = col_reserve
    /\ \E w \in DOMAIN feature_df :
          /\ AssetsOf(w) = {}
          /\ feature_df[w].unique_assets = 0
    /\ \E w \in DOMAIN feature_df : feature_df[w].unique_assets = 2

----------------------------------------------------------------------------
(* generate_analysis.main: the score ranges re-derived from the document   *)

analysis_bins == <<0, 100, 200, 300, 400, 500, 600, 700, 800, 900, 1000>>

labels ==
    <<Str(<<"0", "-", "1", "0", "0">>),
       Str(<<"1", "0", "0", "-", "2", "0", "0">>),
       Str(<<"2", "0", "0", "-", "3", "0", "0">>),
       Str(<<"3", "0", "0", "-", "4", "0", "0">>),
       Str(<<"4", "0", "0", "-", "5", "0", "0">>),
       Str(<<"5", "0", "0", "-", "6", "0", "0">>),
       Str(<<"6", "0", "0", "-", "7", "0", "0">>),
       Str(<<"7", "0", "0", "-", "8", "0", "0">>),
       Str(<<"8", "0", "0", "-", "9", "0", "0">>),
       Str(<<"9", "0", "0", "-", "1", "0", "0", "0">>)>>

\* variant: pd.cut(..., labels=labels, right=False)
analysis_cut_left_closed(x) ==
    LET ids == Cardinality({i \in 1..Len(analysis_bins) :
                              analysis_bins[i] <= x})
    IN  IF ids = 0 \/ ids = Len(analysis_bins) THEN NaN ELSE labels[ids]

\* pd.cut(x, bins=bins, labels=labels, include_lowest=True): the label of
\* the interval (bins[i], bins[i+1]] holding x, the lowest edge included in
\* the first; NaN when no interval holds x
analysis_cut(x) ==
    LET found == Cardinality({i \in 1..Len(analysis_bins) :
                                analysis_bins[i] < x})
        ids == IF x = analysis_bins[1] THEN 1 ELSE found
    IN  IF ids = 0 \/ ids = Len(analysis_bins) THEN NaN ELSE labels[ids]

\* score_df of the reporting tool: DataFrame.from_dict(wallet_scores,
\* orient='index') with the score_range column added
make_report_df(wallet_scores) ==
    [k \in DOMAIN wallet_scores |->
        [credit_score |-> wallet_scores[k],
         score_range  |-> analysis_cut(wallet_scores[k])]]

\* main of the reporting tool up to the score ranges: it reads the document
\* the scorer wrote
AnalysisMain ==
    /\ pc = "done"
    /\ output # Empty
    /\ report_df' = make_report_df(output.wallet_scores)
    /\ pc' = "analysed"
    /\ UNCHANGED mainVarsButPc
    /\ UNCHANGED scoreVars

----------------------------------------------------------------------------
(* The scorer's report, its document and the reporting tool on any score   *)
(* mapping of up to MaxScored wallets                                      *)

\* the wallets scored: the numbers 1..k, or 1..k-1 and the string "1"
ScoredWallets(k, mixed) ==
    [i \in 1..k |-> IF mixed /\ i = k THEN Str(<<"1">>) ELSE Num(i)]

InitAnalysis ==
    /\ \E k \in 1..MaxScored, mixed \in BOOLEAN :
          /\ mixed => k > 1
          /\ df = [columns |-> <<col_id>>,
                   rows    |-> [i \in 1..k |-> <<ScoredWallets(k, mixed)[i]>>]]
          /\ scores \in [Range(ScoredWallets(k, mixed)) -> ScoreSamples]
    /\ user_field = col_id
    /\ action_field = Null
    /\ timestamp_field = Null
    /\ reserve_field = Null
    /\ feature_df = engineer_features(df, user_field, Null, Null, Null)
    /\ score_df = Empty
    /\ analysis = Empty
    /\ pc = "scored"
    /\ NoRun
    /\ features = Empty
    /\ running = FromInt(0)
    /\ final = 0
    /\ spc = "idle"
    /\ report_df = Empty

NextAnalysis ==
    \/ GenerateScoreReport
    \/ SaveResults
    \/ AnalysisMain

SpecAnalysis == InitAnalysis /\ [][NextAnalysis]_vars

Analysed == pc = "analysed"

\* the two numbers a range label "lo-hi" names
dash_at(text) == CHOOSE i \in 1..Len(text) : text[i] = "-"
label_low(label) == int_of(SubSeq(label.s, 1, dash_at(label.s) - 1))
label_high(label) ==
    int_of(SubSeq(label.s, dash_at(label.s) + 1, Len(label.s)))

\* how many entries of the reporting tool's frame carry the i-th label
LabelCount(i) ==
    Cardinality({k \in DOMAIN report_df :
                   report_df[k].score_range = labels[i]})

\* how many scores of the document the scorer's binning puts in bucket i
BucketCount(i) ==
    Cardinality({k \in DOMAIN output.wallet_scores :
                   cut(output.wallet_scores[k]) = i})

\* C12: for every integer score in [0,1000], the range the reporting tool
\* re-derives is the same 100-point range as the bucket the scorer assigned
\* to that score, so over a score mapping the per-bucket counts of the two
\* tools are equal (and equal to the scorer's score_distribution when the
\* mapping holds every scored wallet).
C12_SameBuckets ==
    Analysed =>
        /\ \A k \in DOMAIN report_df, w \in DOMAIN score_df :
              score_df[w].credit_score = report_df[k].credit_score =>
                  /\ score_df[w].score_range \in 1..(Len(bins) - 1)
                  /\ report_df[k].score_range # NaN
                  /\ label_low(report_df[k].score_range)
                       = bins[score_df[w].score_range]
                  /\ label_high(report_df[k].score_range)
                       = bins[score_df[w].score_range + 1]
        /\ \A i \in 1..(Len(bins) - 1) :
              /\ LabelCount(i) = BucketCount(i)
              /\ Cardinality(DOMAIN report_df) = Cardinality(DOMAIN scores)
                   => LabelCount(i) = analysis.score_distribution[i]

\* C12 witness: the reporting tool put the boundary score 100 in "0-100" and
\* the score 1000 in "900-1000", the buckets the scorer counted them in.
C12_Witness ==
    /\ Analysed
    /\ \E k1, k2 \in DOMAIN report_df :
          /\ report_df[k1].credit_score = 100
          /\ report_df[k1].score_range = labels[1]
          /\ report_df[k2].credit_score = 1000
          /\ report_df[k2].score_range = labels[10]
    /\ analysis.score_distribution[1] = 1
    /\ analysis.score_distribution[10] = 1

----------------------------------------------------------------------------
(* Claims about the features, checked under Spec                           *)

\* the rows of wallet w in the cleaned dataset
OwnRows(w) ==
    {i \in 1..Len(df.rows) : df.rows[i][col_index(df, user_field)] = w}

\* the rows of wallet w whose action is a liquidation event
LiquidationRows(w) ==
    IF action_field = Null THEN {}
    ELSE {i \in OwnRows(w) :
            LET a == df.rows[i][col_index(df, action_field)]
            IN  a.t = "str" /\ contains(lower(a.s), s_liquidat)}

\* C13: for every wallet, liquidation_ratio is the fraction of the wallet's
\* transactions that are liquidation events, (rows whose action is a
\* liquidation) / total_transactions, and so lies in [0,1]; in particular
\* when the action values are the canonical label 'liquidationcall'.
C13_LiquidationRatioIsFraction ==
    Engineered =>
        \A w \in DOMAIN feature_df :
            /\ feature_df[w].liquidation_ratio
                 = Rat(Cardinality(LiquidationRows(w)),
                       feature_df[w].total_transactions)
            /\ RLe(FromInt(0), feature_df[w].liquidation_ratio)
            /\ RLe(feature_df[w].liquidation_ratio, FromInt(1))

\* the layout the cleaned dataset came in
LayoutOf(frame) ==
    CHOOSE l \in Layouts :
        frame.columns = [c \in 1..Len(l) |-> l[c].name]

\* the cleaned rows one more record would contribute
CleanRows(rec) ==
    preprocess_data(frame_of(LayoutOf(df), <<rec>>), user_field,
                    timestamp_field).rows

RowWallet(row) == row[col_index(df, user_field)]

Reversed(seq) == [i \in 1..Len(seq) |-> seq[Len(seq) + 1 - i]]

Without(seq, i) == SubSeq(seq, 1, i - 1) \o SubSeq(seq, i + 1, Len(seq))

\* how often wallet w has the row in the rows
OwnCount(rows, w, row) ==
    Cardinality({i \in 1..Len(rows) : rows[i] = row /\ RowWallet(row) = w})

\* wallet w has the same multiset of rows in both
SameOwnRows(rows1, rows2, w) ==
    \A row \in Range(rows1) \cup Range(rows2) :
        OwnCount(rows1, w, row) = OwnCount(rows2, w, row)

\* cleaned datasets got from df by reordering its rows, by removing rows, or
\* by adding one more record in front or behind
Variants ==
    LET added == {CleanRows(rec) : rec \in Records}
    IN  {df.rows, Reversed(df.rows),
         SelectSeq(df.rows, LAMBDA r : RowWallet(r) = RowWallet(df.rows[1]))}
          \cup {Without(df.rows, i) : i \in 1..Len(df.rows)}
          \cup {df.rows \o rows : rows \in added}
          \cup {rows \o df.rows : rows \in added}

\* the variants in which wallet w keeps its multiset of rows
OtherDatasets(w) ==
    {[df EXCEPT !.rows = rows] :
        rows \in {v \in Variants : SameOwnRows(v, df.rows, w)}}

FeaturesIn(frame) ==
    engineer_features(frame, user_field, action_field, timestamp_field,
                      reserve_field)

\* C14: with the role assignments held fixed, a wallet's feature vector and
\* score depend only on the wallet's own rows: in every cleaned dataset in
\* which wallet w has the same multiset of rows, whatever rows of other
\* wallets are added, removed or reordered, w gets the same feature vector
\* and the same score.
C14_OwnRowsOnly ==
    pc = "scored" =>
        \A rows \in Variants :
            LET there == FeaturesIn([df EXCEPT !.rows = rows])
            IN  \A w \in DOMAIN feature_df :
                    SameOwnRows(rows, df.rows, w) =>
                        /\ w \in DOMAIN there
                        /\ there[w] = feature_df[w]
                        /\ calculate_wallet_score(there[w]) = scores[w]

\* C14 witness: a wallet of a dataset of three wallets keeps its vector and
\* its score in a dataset where it is alone and in one with one more wallet's
\* record added, and another wallet's vector is not the same as its own.
C14_Witness ==
    /\ pc = "scored"
    /\ Len(df.rows) = MaxRows
    /\ \E w \in DOMAIN feature_df :
          /\ feature_df[w].total_transactions = 2
          /\ \E u \in DOMAIN feature_df : feature_df[u] # feature_df[w]
          /\ \E small, large \in OtherDatasets(w) :
                /\ Len(small.rows) = 2
                /\ Len(large.rows) = MaxRows + 1
                /\ FeaturesIn(small)[w] = feature_df[w]
                /\ FeaturesIn(large)[w] = feature_df[w]
                /\ DOMAIN FeaturesIn(large) # DOMAIN feature_df

\* wallet w has no parseable timestamp, or there is no timestamp role
NoTimestamp(w) ==
    \/ timestamp_field = Null
    \/ \A i \in OwnRows(w) :
          IsNull(df.rows[i][col_index(df, timestamp_field)])

\* the score the claim gives a wallet with features f
HalvedAbove100(f) ==
    IF f.total_transactions > 100
    THEN clamp(Trunc(RMul(with_bonus(f), Rat(1, 2))))
    ELSE clamp(Trunc(with_bonus(f)))

\* C15: when the timestamp role is unassigned, or a wallet has no parseable
\* timestamp, its features are active_days = 1, account_age_days = 1 and
\* avg_transactions_per_day = total_transactions, so the consistency component
\* is the full 150 points and the bot-penalty halving is applied to the
\* wallet's score if and only if total_transactions > 100.
C15_DefaultsWithoutTimestamps ==
    /\ Engineered =>
          \A w \in DOMAIN feature_df :
              NoTimestamp(w) =>
                  /\ feature_df[w].active_days = 1
                  /\ feature_df[w].account_age_days = 1
                  /\ feature_df[w].avg_transactions_per_day
                       = FromInt(feature_df[w].total_transactions)
                  /\ consistency_score(feature_df[w]) = FromInt(150)
    /\ pc \in {"scored", "reported", "done"} =>
          \A w \in DOMAIN scores :
              NoTimestamp(w) => scores[w] = HalvedAbove100(feature_df[w])

\* C15 witness: a wallet of 101 redeems without timestamps, with the timestamp
\* role assigned, has its 970 points halved to 485.
C15_Witness ==
    /\ pc = "scored"
    /\ timestamp_field = col_Timestamp
    /\ \E w \in DOMAIN scores :
          /\ NoTimestamp(w)
          /\ feature_df[w].total_transactions = 101
          /\ feature_df[w].avg_transactions_per_day = FromInt(101)
          /\ with_bonus(feature_df[w]) = FromInt(970)
          /\ scores[w] = 485

----------------------------------------------------------------------------
(* Claims about the document written, checked under Spec                   *)

\* C16: in every document written by save_results after a completed run, the
\* number of entries of wallet_scores equals total_wallets_scored and equals
\* analysis.total_wallets, i.e. the stringification of the wallet identifiers
\* never merges two scored wallets into one entry, and save_results is
\* executed only after every wallet has been scored and the report computed.
C16_OneEntryPerScoredWallet ==
    /\ output # Empty =>
          /\ pc = "done"
          /\ Cardinality(DOMAIN output.wallet_scores)
               = output.total_wallets_scored
          /\ Cardinality(DOMAIN output.wallet_scores)
               = output.analysis.total_wallets
          /\ \A w1, w2 \in DOMAIN scores :
                as_str(w1) = as_str(w2) => w1 = w2
          /\ DOMAIN scores = CleanedWallets
          /\ output.analysis = analysis
    /\ \A i \in 1..Len(calls) :
          calls[i] = "save_results" =>
              /\ i = Len(calls)
              /\ \E j \in 1..(i - 1) : calls[j] = "calculate_scores"
              /\ calls[i - 1] = "generate_score_report"

=============================================================================
